---- MODULE Spec2Model ----
(***************************************************************************)
(* iButton cloner (iButton-cloner-nano.ino): the polling loop(), the 16    *)
(* EEPROM slots, the serial console and the RW1990 programming sequence.   *)
(* One step of the model is one stretch of loop() between two points where *)
(* the firmware samples its inputs.                                        *)
(***************************************************************************)
EXTENDS Integers, Sequences, FiniteSets, TLC

(***************************************************************************)
(* Bounds on the inputs the environment offers.                            *)
(***************************************************************************)
NumSelectors == 2
NumIds == 1
NumPayloads == 1
NumNames == 1
MaxAbsentRun == 2

Min(a, b) == IF a < b THEN a ELSE b

\* selector positions the operator uses (value formed by the 4 pin levels)
SelectorChoices == <<5, 0, 10, 15, 3>>
Selectors == {SelectorChoices[i] : i \in 1..Min(NumSelectors, Len(SelectorChoices))}

\* identifiers of the fobs that may be held against the contacts
IdChoices ==
  << <<12, 17, 34, 51, 68, 85, 102, 77>>,
     <<1, 255, 128, 7, 0, 0, 0, 90>>,
     <<12, 0, 0, 0, 0, 0, 1, 200>>,
     <<137, 1, 2, 3, 4, 5, 6, 7>> >>
Ids == {IdChoices[i] : i \in 1..Min(NumIds, Len(IdChoices))}

\* 6-byte payloads the operator types on the console
PayloadChoices ==
  << <<171, 205, 239, 0, 159, 6>>,
     <<17, 34, 51, 68, 85, 102>>,
     <<0, 0, 0, 0, 0, 1>>,
     <<255, 254, 253, 252, 251, 250>> >>
Payloads == {PayloadChoices[i] : i \in 1..Min(NumPayloads, Len(PayloadChoices))}

\* names the operator types on the console (ASCII codes): "KEY",
\* "FRONTDOOR" (9 characters), "A", "garage"
NameChoices ==
  << <<75, 69, 89>>,
     <<70, 82, 79, 78, 84, 68, 79, 79, 82>>,
     <<65>>,
     <<103, 97, 114, 97, 103, 101>> >>
Names == {NameChoices[i] : i \in 1..Min(NumNames, Len(NameChoices))}

Absent == <<>>

(***************************************************************************)
(* Bytes, bit operations, EEPROM addressing.                               *)
(***************************************************************************)
Byte == 0..255

Pow2(n) == 2 ^ n

Bit(v, i) == (v \div Pow2(i)) % 2

\* a ^ b on 8-bit values
BitXor(a, b) ==
  LET x(i) == ((Bit(a, i) + Bit(b, i)) % 2) * Pow2(i)
  IN x(0) + x(1) + x(2) + x(3) + x(4) + x(5) + x(6) + x(7)

\* a | b on 8-bit values
BitOr(a, b) ==
  LET o(i) == (IF Bit(a, i) + Bit(b, i) > 0 THEN 1 ELSE 0) * Pow2(i)
  IN IF a = 0 THEN b
     ELSE IF b = 0 THEN a
     ELSE o(0) + o(1) + o(2) + o(3) + o(4) + o(5) + o(6) + o(7)

\* x + (slot << 5)
SlotAddr(s, x) == x + s * 32

\* The EEPROM is kept as 32-byte pages; of each page the model holds the 16
\* cells the firmware's address expressions can name (x in 0..15), for the
\* pages of slot 0..0x10 (0x10 is the value slot holds after the dump loop).
PageOf(a) == a \div 32
CellOf(a) == (a % 32) + 1

\* EEPROM.read(a)
EepromRead(ee, a) == ee[PageOf(a)][CellOf(a)]

\* EEPROM.write(a, v)
EepromWrite(ee, a, v) == [ee EXCEPT ![PageOf(a)][CellOf(a)] = v]

\* the bytes lo..hi-1 of the region of slot s, as a sequence
Region(ee, s, lo, hi) == [k \in 1..(hi - lo) |-> EepromRead(ee, SlotAddr(s, lo + k - 1))]

\* for(x...) EEPROM.write(x + off + (slot << 5), vals[x])
RECURSIVE WriteRegionFrom(_, _, _, _, _)
WriteRegionFrom(ee, s, off, vals, k) ==
  IF k > Len(vals) THEN ee
  ELSE WriteRegionFrom(EepromWrite(ee, SlotAddr(s, off + k - 1), vals[k]),
                       s, off, vals, k + 1)

WriteRegion(ee, s, off, vals) == WriteRegionFrom(ee, s, off, vals, 1)

Zeros(n) == [k \in 1..n |-> 0]

(***************************************************************************)
(* State.                                                                  *)
(***************************************************************************)
VARIABLES
  eeprom,         \* EEPROM cells
  pins,           \* levels of the 4 selector pins SLOT[0..3] (environment)
  addr,           \* byte addr[8]
  code,           \* byte code[8]
  read_pressed,   \* bool read_pressed
  write_pressed,  \* bool write_pressed
  serial_choice,  \* int serial_choice
  slot,           \* byte slot
  pc,             \* where loop() stands
  chord_x,        \* int x of the confirmation loop (lines 257-264)
  bus,            \* one-wire operations issued since the inputs were sampled
  led,            \* LED signals given since the inputs were sampled
  out,            \* console report of the last console step
  rx,             \* the bytes waiting in the serial receive buffer
  typed,          \* the 6 payload bytes the operator meant to type, if any
  absent_run      \* captures in a row that found no device (up to MaxAbsentRun)

vars == <<eeprom, pins, addr, code, read_pressed, write_pressed, serial_choice,
          slot, pc, chord_x, bus, led, out, rx, typed, absent_run>>

\* value the 4 pin levels spell, LSB first
PinLevels(v) == [x \in 0..3 |-> Bit(v, x)]

\* globals as the C runtime initialises them (lines 76-80)
Init ==
  /\ eeprom = [s \in 0..16 |-> Zeros(16)]
  /\ pins \in {PinLevels(v) : v \in Selectors}
  /\ addr = Zeros(8)
  /\ code = Zeros(8)
  /\ read_pressed = FALSE
  /\ write_pressed = FALSE
  /\ serial_choice = -1
  /\ slot = 0
  /\ pc = "loop"
  /\ chord_x = 0
  /\ bus = <<>>
  /\ led = <<>>
  /\ out = <<>>
  /\ rx = <<>>
  /\ typed = <<>>
  /\ absent_run = 0

(***************************************************************************)
(* update_slot, slot_is_full.                                              *)
(***************************************************************************)
\* slot = 0; for x: slot = slot | (digitalRead(SLOT[x]) << x)
RECURSIVE update_slot_from(_, _, _)
update_slot_from(s, p, x) ==
  IF x = 4 THEN s ELSE update_slot_from(BitOr(s, p[x] * Pow2(x)), p, x + 1)

update_slot_value(p) == update_slot_from(0, p, 0)

\* for x: code[x] = EEPROM.read(x + (slot << 5))
update_slot_code(ee, s) == Region(ee, s, 0, 8)

\* lines 499-502: result = result | EEPROM.read(x + (slot << 5))
RECURSIVE slot_is_full_from(_, _, _, _)
slot_is_full_from(result, ee, s, x) ==
  IF x = 8 THEN result
  ELSE slot_is_full_from(BitOr(result, EepromRead(ee, SlotAddr(s, x))), ee, s, x + 1)

\* the two return values exchanged
slot_is_full_inverted(ee, s) == slot_is_full_from(0, ee, s, 0) = 0

\* lines 498-509
slot_is_full(ee, s) == slot_is_full_from(0, ee, s, 0) # 0

(***************************************************************************)
(* One-wire operations and LED signals, as they are recorded.              *)
(***************************************************************************)
BusOp(o, v, s) == [op |-> o, val |-> v, slots |-> s]

\* ibutton.reset()
OwReset == BusOp("reset", 0, <<>>)

\* ibutton.write(v)
OwWrite(v) == BusOp("write", v, <<>>)

\* ibutton.skip(): the library writes the skip-ROM command 0xCC
OwSkip == OwWrite(204)

\* ibutton.search(addr): the library's reset, search command and bit reads;
\* dev is the identifier read off the bus, Absent if nothing answered
OwSearch(dev) == BusOp("search", IF dev = Absent THEN 0 ELSE 1, dev)

\* the byte shifted out from its top bit
writeByte_msb_first(data) ==
  [b \in 1..8 |-> IF Bit(data, 8 - b) = 1 THEN "low60" ELSE "brief"]

\* the 8 time slots of writeByte(data), LSB first: a set bit is driven low
\* for 60 microseconds, a clear bit gets the bare low pulse
writeByte(data) ==
  [b \in 1..8 |-> IF Bit(data, b - 1) = 1 THEN "low60" ELSE "brief"]

OwWriteByte(data) == BusOp("writeByte", data, writeByte(data))

\* the sequence given up after the fourth identifier byte
ProgramSequence_CutShort(c) ==
  <<OwSkip, OwReset, OwWrite(51), OwSkip, OwReset, OwWrite(213)>>
    \o [x \in 1..4 |-> OwWriteByte(c[x])]

\* the sequence with each reset ahead of its command and one skip-ROM only
ProgramSequence_ResetFirst(c) ==
  <<OwReset, OwSkip, OwReset, OwWrite(51), OwReset, OwWrite(213)>>
    \o [x \in 1..8 |-> OwWriteByte(c[x])]
    \o <<OwReset>>

\* lines 299-314: everything the write branch puts on the bus after search
ProgramSequence(c) ==
  <<OwSkip, OwReset, OwWrite(51), OwSkip, OwReset, OwWrite(213)>>
    \o [x \in 1..8 |-> OwWriteByte(c[x])]
    \o <<OwReset>>

\* blinkPin(LED, cycles, period)
blinkPin(pin, cycles) == <<pin, cycles>>

(***************************************************************************)
(* loop(), button side (lines 252-326).                                    *)
(***************************************************************************)
\* the operator turns the selector switches between two operations
TurnSelector ==
  /\ pc = "loop"
  /\ rx = <<>>
  /\ \E v \in Selectors : pins' = PinLevels(v) /\ pins' # pins
  /\ UNCHANGED <<eeprom, addr, code, read_pressed, write_pressed, serial_choice,
                 slot, pc, chord_x, bus, led, out, rx, typed, absent_run>>

\* lines 253-256: no serial data; the two buttons are sampled
SampleButtons ==
  /\ pc = "loop"
  /\ rx = <<>>
  /\ \E r \in BOOLEAN, w \in BOOLEAN :
       /\ read_pressed' = r
       /\ write_pressed' = w
       /\ pc' = IF r /\ w THEN "chord" ELSE "branch"
  /\ chord_x' = 0
  /\ UNCHANGED <<eeprom, pins, addr, code, serial_choice, slot, bus, led, out, rx, typed,
                 absent_run>>

\* the test with && for ||
chord_released_both(r, w) == ~r /\ ~w

\* line 261
chord_released(r, w) == ~r \/ ~w

\* lines 265-267
chord_erase(ee, s) == WriteRegion(ee, s, 0, Zeros(16))

\* lines 257-269: one pass of the confirmation loop; after the third
\* confirmed pulse the 16 bytes at slot are zeroed
ChordPulse ==
  /\ pc = "chord"
  /\ \E r \in BOOLEAN, w \in BOOLEAN :
       /\ read_pressed' = r
       /\ write_pressed' = w
       /\ IF chord_released(r, w)
          THEN /\ pc' = "ret"
               /\ chord_x' = 0
               /\ led' = Append(led, blinkPin("RED", 1))
               /\ eeprom' = eeprom
          ELSE IF chord_x + 1 < 3
          THEN /\ pc' = "chord"
               /\ chord_x' = chord_x + 1
               /\ led' = Append(led, blinkPin("RED", 1))
               /\ eeprom' = eeprom
          ELSE /\ pc' = "branch"
               /\ chord_x' = 0
               /\ led' = led \o <<blinkPin("RED", 1), blinkPin("GREEN", 3)>>
               /\ eeprom' = chord_erase(eeprom, slot)
  /\ absent_run' = 0
  /\ UNCHANGED <<pins, addr, code, serial_choice, slot, bus, out, rx, typed>>

\* the copy loop stopping one byte early
capture_store_short(ee, s, a) == WriteRegion(ee, s, 0, SubSeq(a, 1, 7))

\* the copy loop running over the whole 16-byte record
capture_store_whole_record(ee, s, a) == WriteRegion(ee, s, 0, a \o Zeros(8))

\* lines 280-283
capture_store(ee, s, a) == WriteRegion(ee, s, 0, a)

\* what ibutton.search may find on the bus: one of the fobs, or nothing
Detections == Ids \cup {Absent}

\* the same with a fob whose 8 identifier bytes all read 0x00
AnyFobDetections == Detections \cup {Zeros(8)}

\* the failed search falling through to the wait instead of returning
after_capture_always_waits(found) == "wait_read"

\* the capture returning without the wait for the release
after_capture_no_wait(found) == "ret"

\* lines 272-287: return when nothing is found, else the loop of line 286
after_capture(found) == IF found THEN "wait_read" ELSE "ret"

\* lines 270-287: dev is what ibutton.search finds on the bus
ReadBranchOn(devs) ==
  /\ pc = "branch"
  /\ read_pressed
  /\ \E dev \in devs :
       LET s == update_slot_value(pins) IN
       /\ slot' = s
       /\ pc' = after_capture(dev # Absent)
       /\ IF dev = Absent
          THEN /\ bus' = Append(bus, OwSearch(dev))
               /\ led' = Append(led, blinkPin("RED_FLASH", 1))
               /\ code' = update_slot_code(eeprom, s)
               /\ absent_run' = Min(absent_run + 1, MaxAbsentRun)
               /\ UNCHANGED <<eeprom, addr>>
          ELSE /\ bus' = Append(bus, OwSearch(dev))
               /\ addr' = dev
               /\ eeprom' = capture_store(eeprom, s, dev)
               /\ code' = dev
               /\ led' = Append(led, blinkPin("GREEN", 5))
               /\ absent_run' = absent_run
  /\ UNCHANGED <<pins, read_pressed, write_pressed, serial_choice, chord_x,
                 out, rx, typed>>

ReadBranch == ReadBranchOn(Detections)

\* lines 290-321: return when the search fails, else a loop of line 316 or 320
after_program(full, found) == IF full /\ ~found THEN "ret" ELSE "wait_write"

\* the loop sending the bytes the search has just put in addr[]
program_bytes_detected(c, a) == a

\* line 309: the loop sends code[x], which update_slot() read from the EEPROM
program_bytes(c, a) == c

\* lines 288-322
WriteBranchOn(devs) ==
  /\ pc = "branch"
  /\ ~read_pressed
  /\ write_pressed
  /\ \E dev \in devs :
       LET s == update_slot_value(pins)
           c == update_slot_code(eeprom, s)
       IN
       /\ slot' = s
       /\ code' = c
       /\ pc' = after_program(slot_is_full(eeprom, s), dev # Absent)
       /\ IF slot_is_full(eeprom, s)
          THEN IF dev = Absent
               THEN /\ bus' = Append(bus, OwSearch(dev))
                    /\ led' = Append(led, blinkPin("RED_FLASH", 1))
                    /\ addr' = addr
               ELSE /\ bus' = <<OwSearch(dev)>> \o ProgramSequence(program_bytes(c, dev))
                    /\ addr' = dev
                    /\ led' = led \o <<blinkPin("RED_FLICKER", 8), blinkPin("GREEN", 5)>>
          ELSE /\ bus' = bus
               /\ led' = Append(led, blinkPin("RED", 5))
               /\ addr' = addr
  /\ absent_run' = 0
  /\ UNCHANGED <<eeprom, pins, read_pressed, write_pressed, serial_choice,
                 chord_x, out, rx, typed>>

WriteBranch == WriteBranchOn(Detections)

\* lines 323-325
IdleDelay ==
  /\ pc = "branch"
  /\ ~read_pressed
  /\ ~write_pressed
  /\ pc' = "ret"
  /\ UNCHANGED <<eeprom, pins, addr, code, read_pressed, write_pressed,
                 serial_choice, slot, chord_x, bus, led, out, rx, typed, absent_run>>

\* line 286: while(!digitalRead(READ)) delay(1) ends and loop() returns
ReleaseRead ==
  /\ pc = "wait_read"
  /\ pc' = "ret"
  /\ absent_run' = 0
  /\ UNCHANGED <<eeprom, pins, addr, code, read_pressed, write_pressed,
                 serial_choice, slot, chord_x, bus, led, out, rx, typed>>

\* lines 316, 320: while(!digitalRead(WRITE)) delay(1) ends and loop() returns
ReleaseWrite ==
  /\ pc = "wait_write"
  /\ pc' = "ret"
  /\ UNCHANGED <<eeprom, pins, addr, code, read_pressed, write_pressed,
                 serial_choice, slot, chord_x, bus, led, out, rx, typed, absent_run>>

\* loop() has returned and is called again; what the last pass put on the
\* bus, the LEDs and the console is a thing of the past
LoopAgain ==
  /\ pc = "ret"
  /\ pc' = "loop"
  /\ bus' = <<>>
  /\ led' = <<>>
  /\ out' = <<>>
  /\ UNCHANGED <<eeprom, pins, addr, code, read_pressed, write_pressed,
                 serial_choice, slot, chord_x, rx, typed, absent_run>>

(***************************************************************************)
(* Console text helpers (characters are ASCII codes).                      *)
(***************************************************************************)
toupper(c) == IF c \in 97..122 THEN c - 32 ELSE c

tolower(c) == IF c \in 65..90 THEN c + 32 ELSE c

\* the default case returning 0
hex_digit_val_dec_lenient(ch) ==
  IF ch \in 48..57 THEN ch - 48
  ELSE IF ch \in 65..70 THEN ch - 55
  ELSE 0

\* lines 394-452
hex_digit_val_dec(ch) ==
  IF ch \in 48..57 THEN ch - 48
  ELSE IF ch \in 65..70 THEN ch - 55
  ELSE -1

\* lines 454-474
hexstr_to_int(hex) ==
  IF Len(hex) = 2
  THEN LET t1 == hex_digit_val_dec(toupper(hex[1]))
           t2 == hex_digit_val_dec(toupper(hex[2]))
       IN IF t1 = -1 THEN -1
          ELSE IF t2 = -1 THEN -1
          ELSE t1 * 16 + t2
  ELSE -1

\* the bitwise form of OneWire::crc8 for one byte: 8 shifts of crc and inbyte
RECURSIVE crc8_bits(_, _, _)
crc8_bits(crc, inbyte, i) ==
  IF i = 0 THEN crc
  ELSE LET mix == (crc + inbyte) % 2
           c1 == crc \div 2
       IN crc8_bits(IF mix = 1 THEN BitXor(c1, 140) ELSE c1, inbyte \div 2, i - 1)

\* the library's lookup table: entry v is the crc of the single byte v
dscrc_table == [v \in Byte |-> crc8_bits(0, v, 8)]

RECURSIVE crc8_from(_, _, _)
crc8_from(crc, bytes, k) ==
  IF k > Len(bytes) THEN crc
  ELSE crc8_from(dscrc_table[BitXor(crc, bytes[k])], bytes, k + 1)

\* OneWire::crc8(addr, len): crc = table[crc ^ *addr++] for each byte
crc8(bytes) == crc8_from(0, bytes, 1)

\* Serial.print(v, HEX) of a byte: upper-case digits, no leading zero
HexDigitChar(d) == IF d < 10 THEN 48 + d ELSE 55 + d

PrintHex(v) ==
  IF v < 16 THEN <<HexDigitChar(v)>>
  ELSE <<HexDigitChar(v \div 16), HexDigitChar(v % 16)>>

\* "<EMPTY SLOT>" and "<UNNAMED>"
EmptySlotText == <<60, 69, 77, 80, 84, 89, 32, 83, 76, 79, 84, 62>>
UnnamedText == <<60, 85, 78, 78, 65, 77, 69, 68, 62>>

\* lines 364-377
RECURSIVE print_mem_from(_, _, _, _)
print_mem_from(ee, s, x, upper) ==
  IF x >= upper THEN <<>>
  ELSE LET curr_val == EepromRead(ee, SlotAddr(s, x))
       IN <<48, 120>>
            \o (IF curr_val < 16 THEN <<48>> ELSE <<>>)
            \o PrintHex(curr_val)
            \o (IF x < upper - 1 THEN <<44, 32>> ELSE <<>>)
            \o print_mem_from(ee, s, x + 1, upper)

print_mem(ee, s, lower, upper) ==
  IF slot_is_full(ee, s)
  THEN print_mem_from(ee, s, lower, upper)
  ELSE EmptySlotText

\* lines 379-392
RECURSIVE print_mem_name_from(_, _, _)
print_mem_name_from(ee, s, x) ==
  IF x = 8 THEN <<>>
  ELSE IF EepromRead(ee, SlotAddr(s, x + 8)) = 0 THEN <<>>
  ELSE <<EepromRead(ee, SlotAddr(s, x + 8))>> \o print_mem_name_from(ee, s, x + 1)

print_mem_name(ee, s) ==
  IF EepromRead(ee, SlotAddr(s, 8)) = 0
  THEN UnnamedText
  ELSE print_mem_name_from(ee, s, 0)

Report(m, s, n, c) == [msg |-> m, slot |-> s, name |-> n, mem |-> c]

(***************************************************************************)
(* What the operator types.                                                *)
(***************************************************************************)
\* a command letter followed by the slot number, as a hex digit
CommandText(letter, n) == <<letter, HexDigitChar(n)>>

\* R, W, C, w with a slot number; D and an unknown letter without
CommandTexts ==
  {CommandText(l, n) : l \in {82, 87, 67, 119}, n \in Selectors}
    \cup {<<68>>, <<63>>}

\* "0xHH" with the hex digits in upper or lower case
FieldText(b, lower) ==
  LET d(v) == IF lower THEN tolower(HexDigitChar(v)) ELSE HexDigitChar(v)
  IN <<48, 120, d(b \div 16), d(b % 16)>>

\* "0x01, 0x02, 0x03, 0x04, 0x05, 0x06"
PayloadText(P, lower) ==
  FieldText(P[1], lower) \o <<44, 32>> \o FieldText(P[2], lower) \o <<44, 32>>
    \o FieldText(P[3], lower) \o <<44, 32>> \o FieldText(P[4], lower) \o <<44, 32>>
    \o FieldText(P[5], lower) \o <<44, 32>> \o FieldText(P[6], lower)

\* the text with character pos replaced by ch (pos = 0: as typed)
Mistype(text, pos, ch) ==
  [k \in 1..Len(text) |-> IF k = pos THEN ch ELSE text[k]]

\* the text cut off after n characters
CutAt(text, n) == SubSeq(text, 1, Min(n, Len(text)))

\* how a payload gets typed: as meant, in upper or lower case; with 'G' in
\* place of any one of the 34 characters; with 'X' for the 'x' of a field;
\* cut short
PayloadTexts(P) ==
  {PayloadText(P, lower) : lower \in BOOLEAN}
    \cup {Mistype(PayloadText(P, FALSE), pos, 71) : pos \in 1..34}
    \cup {Mistype(PayloadText(P, FALSE), 6 * x + 2, 88) : x \in 0..5}
    \cup {CutAt(PayloadText(P, FALSE), n) : n \in {3, 20, 33}}

(***************************************************************************)
(* loop(), console side (lines 101-251).                                   *)
(***************************************************************************)
\* lines 104-122: the first command letter of the buffer counts, and only
\* while no command is pending
RECURSIVE parse_command_from(_, _, _)
parse_command_from(choice, text, k) ==
  IF k > Len(text) THEN choice
  ELSE IF choice # -1 THEN parse_command_from(choice, text, k + 1)
  ELSE LET currChar == toupper(text[k])
       IN parse_command_from(IF currChar = 82 THEN 0
                             ELSE IF currChar = 87 THEN 1
                             ELSE IF currChar = 67 THEN 2
                             ELSE IF currChar = 68 THEN 3
                             ELSE -1, text, k + 1)

parse_command(choice, text) == parse_command_from(choice, text, 1)

\* each line showing the 6 bytes from the family code on
dump_lines_from_family_code(ee) ==
  [k \in 1..16 |-> Report("dump", k - 1, print_mem_name(ee, k - 1), print_mem(ee, k - 1, 0, 6))]

\* lines 235-242: one line per value of slot
dump_lines(ee) ==
  [k \in 1..16 |-> Report("dump", k - 1, print_mem_name(ee, k - 1), print_mem(ee, k - 1, 1, 7))]

\* the loop stopping after the identifier
console_clear_identifier_only(ee, s) == WriteRegion(ee, s, 0, Zeros(8))

\* lines 223-225
console_clear(ee, s) == WriteRegion(ee, s, 0, Zeros(16))

\* the operator sends a command line
ReceiveCommand ==
  /\ pc = "loop"
  /\ rx = <<>>
  /\ rx' \in CommandTexts
  /\ UNCHANGED <<eeprom, pins, addr, code, read_pressed, write_pressed, serial_choice,
                 slot, pc, chord_x, bus, led, out, typed, absent_run>>

\* the operator answers the prompt for the code
ReceivePayload ==
  /\ pc = "w_payload"
  /\ rx = <<>>
  /\ \E P \in Payloads :
       /\ typed' = P
       /\ rx' \in PayloadTexts(P)
  /\ UNCHANGED <<eeprom, pins, addr, code, read_pressed, write_pressed, serial_choice,
                 slot, pc, chord_x, bus, led, out, absent_run>>

\* the operator answers the prompt for the name
ReceiveName ==
  /\ pc = "w_name"
  /\ rx = <<>>
  /\ rx' \in Names
  /\ UNCHANGED <<eeprom, pins, addr, code, read_pressed, write_pressed, serial_choice,
                 slot, pc, chord_x, bus, led, out, typed, absent_run>>

\* lines 101-251 up to the wait for the payload
SerialCommand ==
  /\ pc = "loop"
  /\ rx # <<>>
  /\ LET choice == parse_command(serial_choice, rx)
         s == update_slot_value(pins)
     IN
       /\ rx' = <<>>
       /\ CASE choice = 0 ->
                 /\ slot' = s
                 /\ code' = update_slot_code(eeprom, s)
                 /\ out' = IF slot_is_full(eeprom, s)
                           THEN <<Report("read_success", s, print_mem_name(eeprom, s),
                                         print_mem(eeprom, s, 1, 7))>>
                           ELSE <<Report("read_error", s, <<>>, <<>>)>>
                 /\ serial_choice' = -1
                 /\ pc' = "ret"
                 /\ eeprom' = eeprom
            [] choice = 1 ->
                 /\ slot' = s
                 /\ code' = update_slot_code(eeprom, s)
                 /\ out' = <<Report("waiting_code", s, <<>>, <<>>)>>
                 /\ serial_choice' = 1
                 /\ pc' = "w_payload"
                 /\ eeprom' = eeprom
            [] choice = 2 ->
                 /\ slot' = s
                 /\ code' = update_slot_code(eeprom, s)
                 /\ eeprom' = console_clear(eeprom, s)
                 /\ out' = <<Report("cleared", s, <<>>, <<>>)>>
                 /\ serial_choice' = -1
                 /\ pc' = "ret"
            [] choice = 3 ->
                 /\ slot' = 16
                 /\ out' = dump_lines(eeprom)
                 /\ serial_choice' = 3
                 /\ pc' = "ret"
                 /\ UNCHANGED <<eeprom, code>>
            [] OTHER ->
                 /\ serial_choice' = -1
                 /\ out' = <<>>
                 /\ pc' = "ret"
                 /\ UNCHANGED <<eeprom, code, slot>>
  /\ absent_run' = 0
  /\ UNCHANGED <<pins, addr, read_pressed, write_pressed, chord_x, bus, led, typed>>

\* Serial.read() number k (from 0) of the buffer, -1 once it is empty
SerialRead(text, k) == IF k < Len(text) THEN text[k + 1] ELSE -1

\* lines 159-177: the check that stops field x, "" if none does
field_error(text, x) ==
  IF SerialRead(text, 6 * x) # 48 THEN "no_leading_0"
  ELSE IF tolower(SerialRead(text, 6 * x + 1)) # 120 THEN "no_leading_x"
  ELSE IF x < 5 /\ SerialRead(text, 6 * x + 4) # 44 THEN "no_comma"
  ELSE IF x < 5 /\ SerialRead(text, 6 * x + 5) # 32 THEN "no_space"
  ELSE ""

\* lines 167-168: (char)Serial.read() twice
hexstr(text, x) ==
  <<SerialRead(text, 6 * x + 2) % 256, SerialRead(text, 6 * x + 3) % 256>>

\* lines 158-187: the first check that fails, "" if the payload is accepted
payload_error(text) ==
  IF \E x \in 0..5 : field_error(text, x) # ""
  THEN field_error(text, CHOOSE x \in 0..5 :
                     /\ field_error(text, x) # ""
                     /\ \A y \in 0..(x - 1) : field_error(text, y) = "")
  ELSE IF \E x \in 0..5 : hexstr_to_int(hexstr(text, x)) = -1
  THEN "invalid_hex"
  ELSE ""

\* lines 180-182
payload_result(text) ==
  <<hexstr_to_int(hexstr(text, 0)), hexstr_to_int(hexstr(text, 1)),
    hexstr_to_int(hexstr(text, 2)), hexstr_to_int(hexstr(text, 3)),
    hexstr_to_int(hexstr(text, 4)), hexstr_to_int(hexstr(text, 5))>>

\* the checksum taken over the 6 payload bytes only
identifier_store_crc_of_payload(ee, s, result) ==
  LET start == <<12>> \o [x \in 1..6 |-> result[x] % 256]
  IN WriteRegion(ee, s, 0, start \o <<crc8(Tail(start))>>)

\* lines 189-196: family code, the 6 bytes, crc8 over the 7
identifier_store(ee, s, result) ==
  LET start == <<12>> \o [x \in 1..6 |-> result[x] % 256]
  IN WriteRegion(ee, s, 0, start \o <<crc8(start)>>)

\* lines 204-211: 8 name bytes, 0x00 once the buffer is empty
name_store(ee, s, text) ==
  WriteRegion(ee, s, 8, [x \in 1..8 |-> IF x <= Len(text) THEN text[x] ELSE 0])

\* lines 482-486 and 74: the firmware starts over; EEPROM and switches stay
bad_form(err) ==
  /\ addr' = Zeros(8)
  /\ code' = Zeros(8)
  /\ read_pressed' = FALSE
  /\ write_pressed' = FALSE
  /\ serial_choice' = -1
  /\ slot' = 0
  /\ pc' = "ret"
  /\ chord_x' = 0
  /\ bus' = <<>>
  /\ led' = <<>>
  /\ out' = <<Report(err, slot, <<>>, <<>>)>>
  /\ UNCHANGED <<eeprom, pins>>

\* lines 154-201: the payload is in the buffer
PayloadInput ==
  /\ pc = "w_payload"
  /\ rx # <<>>
  /\ LET err == payload_error(rx)
         rest == SubSeq(rx, 35, Len(rx))
     IN
       /\ rx' = <<>>
       /\ typed' = <<>>
       /\ absent_run' = 0
       /\ IF err # ""
          THEN bad_form(err)
          ELSE /\ out' = <<Report("code_saved", slot, <<>>, <<>>)>>
               /\ IF rest = <<>>
                  THEN /\ eeprom' = identifier_store(eeprom, slot, payload_result(rx))
                       /\ pc' = "w_name"
                       /\ serial_choice' = serial_choice
                  ELSE /\ eeprom' = name_store(
                              identifier_store(eeprom, slot, payload_result(rx)),
                              slot, rest)
                       /\ pc' = "ret"
                       /\ serial_choice' = -1
               /\ UNCHANGED <<pins, addr, code, read_pressed, write_pressed, slot,
                              chord_x, bus, led>>

\* lines 202-215: the name is in the buffer
NameInput ==
  /\ pc = "w_name"
  /\ rx # <<>>
  /\ eeprom' = name_store(eeprom, slot, rx)
  /\ rx' = <<>>
  /\ out' = <<Report("name_saved", slot, <<>>, <<>>)>>
  /\ serial_choice' = -1
  /\ pc' = "ret"
  /\ UNCHANGED <<pins, addr, code, read_pressed, write_pressed, slot, chord_x,
                 bus, led, typed, absent_run>>

Next ==
  \/ TurnSelector
  \/ SampleButtons
  \/ ChordPulse
  \/ ReadBranch
  \/ WriteBranch
  \/ IdleDelay
  \/ ReleaseRead
  \/ ReleaseWrite
  \/ LoopAgain
  \/ ReceiveCommand
  \/ ReceivePayload
  \/ ReceiveName
  \/ SerialCommand
  \/ PayloadInput
  \/ NameInput

Spec == Init /\ [][Next]_vars

\* the same firmware with the all-zero fob among those at hand
NextAnyFob ==
  \/ TurnSelector
  \/ SampleButtons
  \/ ChordPulse
  \/ ReadBranchOn(AnyFobDetections)
  \/ WriteBranchOn(AnyFobDetections)
  \/ IdleDelay
  \/ ReleaseRead
  \/ ReleaseWrite
  \/ LoopAgain
  \/ ReceiveCommand
  \/ ReceivePayload
  \/ ReceiveName
  \/ SerialCommand
  \/ PayloadInput
  \/ NameInput

SpecAnyFob == Init /\ [][NextAnyFob]_vars

(***************************************************************************)
(* Vocabulary of the properties.                                           *)
(***************************************************************************)
\* the slot the 4 selector lines indicate
SelectorValue == pins[0] + 2 * pins[1] + 4 * pins[2] + 8 * pins[3]

\* identifier and label stored for slot i
Identifier(ee, i) == [k \in 1..8 |-> ee[i][k]]
Label(ee, i) == [k \in 1..8 |-> ee[i][8 + k]]

\* operation and value of every bus operation, in the order issued
BusOps == [k \in 1..Len(bus) |-> <<bus[k].op, bus[k].val>>]

\* the 8 identifier bytes of slot i as byte transmissions
ByteOps(i) == [k \in 1..8 |-> <<"writeByte", eeprom[i][k]>>]

\* a Program that found its device and ran to the end
ProgramCompleted == pc = "wait_write" /\ bus # <<>>

HexDigits == (48..57) \cup (65..70) \cup (97..102)

\* "0xHH, 0xHH, 0xHH, 0xHH, 0xHH, 0xHH"
WellFormed(text) ==
  /\ Len(text) >= 34
  /\ \A x \in 0..5 :
       /\ text[6 * x + 1] = 48
       /\ text[6 * x + 2] \in {120, 88}
       /\ text[6 * x + 3] \in HexDigits
       /\ text[6 * x + 4] \in HexDigits
       /\ x < 5 => (text[6 * x + 5] = 44 /\ text[6 * x + 6] = 32)

\* the payload is in the buffer and the firmware is about to read it
PayloadArrived == pc = "w_payload" /\ rx # <<>>

\* the slot number given after the command letter
RequestedSlot(text) == CHOOSE n \in 0..15 : HexDigitChar(n) = text[2]

\* what the console shows for slot i: the empty marker, the unnamed marker
ReportedEmpty(ee, i) == print_mem(ee, i, 1, 7) = EmptySlotText
ReportedUnnamed(ee, i) == print_mem_name(ee, i) = UnnamedText

\* the characters of a label up to its first NUL
LabelLength(l) ==
  CHOOSE n \in 0..8 : (\A k \in 1..n : l[k] # 0) /\ (n = 8 \/ l[n + 1] = 0)
LabelText(l) == SubSeq(l, 1, LabelLength(l))

\* loop() stands at the READ branch: a Capture begins
CaptureBegins == pc = "branch" /\ read_pressed

\* the detection the branch has just made (the last bus operation)
Detected == bus[Len(bus)].slots

\* this pass of loop() has completed the two-trigger hold (3 green blinks)
ChordCompleted == \E k \in 1..Len(led) : led[k] = <<"GREEN", 3>>

\* loop() stands at the WRITE branch: a Program begins
ProgramBegins == pc = "branch" /\ ~read_pressed /\ write_pressed

\* loop() stands in one of the two loops that wait for a trigger's release
WaitsForRelease == pc \in {"wait_read", "wait_write"}

\* what this pass of loop() has put on the bus after its detection
SentAfterDetection(b) == SelectSeq(b, LAMBDA o : o.op # "search")

\* the identifier-byte transmissions on the bus
ByteTransmissions == {k \in 1..Len(bus) : bus[k].op = "writeByte"}

\* the console has just answered a D command
Dumped == pc = "ret" /\ out # <<>> /\ out[1].msg = "dump"

\* the console's C command has just cleared a slot
ConsoleCleared == pc = "ret" /\ out # <<>> /\ out[1].msg = "cleared"

\* the step in which the two-trigger hold is confirmed for the third time
ChordCompletes == pc = "chord" /\ pc' = "branch"

(***************************************************************************)
(* C1. After detection, a Program on a populated slot issues: reset,       *)
(* skip-ROM, reset, write-memory opcode, reset, copy opcode, the 8 stored  *)
(* identifier bytes in index order, final reset.                           *)
(***************************************************************************)
C1_SequenceAsSpecified ==
  ProgramCompleted =>
    Tail(BusOps) =
      << <<"reset", 0>>, <<"write", 204>>, <<"reset", 0>>, <<"write", 51>>,
         <<"reset", 0>>, <<"write", 213>> >>
        \o ByteOps(SelectorValue) \o << <<"reset", 0>> >>

\* C1 as amended: after detection, a Program on a populated slot issues
\* skip-ROM (0xCC), reset, opcode 0x33, skip-ROM (0xCC), reset, opcode 0xD5,
\* the 8 identifier bytes stored in the selected slot in index order 0..7,
\* final reset, and nothing else.
C1_SequenceAsCoded ==
  ProgramCompleted =>
    /\ BusOps[1] = <<"search", 1>>
    /\ Tail(BusOps) =
         << <<"write", 204>>, <<"reset", 0>>, <<"write", 51>>, <<"write", 204>>,
            <<"reset", 0>>, <<"write", 213>> >>
           \o ByteOps(SelectorValue) \o << <<"reset", 0>> >>

C1_Witness ==
  /\ ProgramCompleted
  /\ SelectorValue = 5
  /\ Identifier(eeprom, 5)[1] = 12
  /\ Identifier(eeprom, 5)[8] # 0

(***************************************************************************)
(* C2. A two-trigger hold confirmed through all three pulses zeroes the 16 *)
(* bytes of the slot the selector indicates at that time, and no others.   *)
(***************************************************************************)
C2_ChordErasesSelectedSlot ==
  [][(pc = "chord" /\ pc' = "branch") =>
       eeprom' = [eeprom EXCEPT ![SelectorValue] = Zeros(16)]]_vars

(***************************************************************************)
(* C3. Round-trip capture: once a Capture has stored the identifier that   *)
(* detection returned, the 8 identifier bytes of the selected slot equal   *)
(* it byte for byte.                                                       *)
(***************************************************************************)
C3_CaptureRoundTrip ==
  pc = "wait_read" =>
    /\ bus[Len(bus)].op = "search"
    /\ bus[Len(bus)].slots \in Ids
    /\ Identifier(eeprom, SelectorValue) = bus[Len(bus)].slots

C3_Witness ==
  /\ pc = "wait_read"
  /\ Identifier(eeprom, SelectorValue) = IdChoices[1]
  /\ Label(eeprom, SelectorValue) # Zeros(8)

(***************************************************************************)
(* C4. A well-formed 6-byte console payload P is stored in the selected    *)
(* slot as 0x0C, P, CRC-8 of those 7 bytes.                                *)
(***************************************************************************)
C4_ConsolePayloadStored ==
  [][(PayloadArrived /\ WellFormed(rx)) =>
       LET id == Identifier(eeprom', SelectorValue) IN
       /\ pc' = "w_name"
       /\ id[1] = 12
       /\ SubSeq(id, 2, 7) = typed
       /\ id[8] = crc8(SubSeq(id, 1, 7))
       /\ typed = <<171, 205, 239, 0, 159, 6>> => id[8] = 186
       /\ typed = <<17, 34, 51, 68, 85, 102>> => id[8] = 77]_vars

C4_Witness ==
  /\ pc = "w_name"
  /\ Identifier(eeprom, SelectorValue) = <<12, 171, 205, 239, 0, 159, 6, 186>>

(***************************************************************************)
(* C5. A Program triggered while the selected slot is empty performs no    *)
(* bus operation and signals "nothing stored" (5 red blinks).              *)
(***************************************************************************)
C5_ProgramOnEmptySlot ==
  [][(/\ pc = "branch"
      /\ ~read_pressed
      /\ write_pressed
      /\ Identifier(eeprom, SelectorValue) = Zeros(8)) =>
       /\ bus' = <<>>
       /\ led' = << <<"RED", 5>> >>
       /\ pc' = "wait_write"
       /\ eeprom' = eeprom]_vars

C5_Witness ==
  /\ pc = "wait_write"
  /\ Identifier(eeprom, SelectorValue) = Zeros(8)
  /\ bus = <<>>
  /\ led = << <<"RED", 5>> >>

(***************************************************************************)
(* C6. A console R, W or C command acts on the slot number supplied with   *)
(* the command, whatever the selector lines show.                          *)
(***************************************************************************)
C6_ConsoleUsesRequestedSlot ==
  [][(/\ pc = "loop"
      /\ serial_choice = -1
      /\ Len(rx) = 2
      /\ toupper(rx[1]) \in {82, 87, 67}) =>
       /\ out'[1].slot = RequestedSlot(rx)
       /\ toupper(rx[1]) = 67 =>
            eeprom' = [eeprom EXCEPT ![RequestedSlot(rx)] = Zeros(16)]]_vars

(***************************************************************************)
(* C7. Whenever the firmware is back at the top of loop(), no console      *)
(* command is pending.                                                     *)
(***************************************************************************)
C7_NoCommandPendingWhenIdle == pc = "loop" => serial_choice = -1

(***************************************************************************)
(* C8. A malformed console payload changes no byte of storage.             *)
(***************************************************************************)
C8_MalformedPayloadRejected ==
  [][(PayloadArrived /\ ~WellFormed(rx)) =>
       /\ eeprom' = eeprom
       /\ pc' = "ret"
       /\ out'[1].msg \in {"no_leading_0", "no_leading_x", "no_comma", "no_space",
                           "invalid_hex"}]_vars

C8_Witness ==
  /\ pc = "ret"
  /\ out # <<>>
  /\ out[1].msg = "invalid_hex"
  /\ Identifier(eeprom, SelectorValue) \in Ids

(***************************************************************************)
(* C9. A two-trigger hold in which a trigger is found released at any of   *)
(* the three confirmations changes no byte of storage.                     *)
(***************************************************************************)
C9_ChordAbort ==
  [][(pc = "chord" /\ (~read_pressed' \/ ~write_pressed')) =>
       (eeprom' = eeprom /\ pc' = "ret")]_vars

C9_Witness ==
  /\ pc = "ret"
  /\ led = << <<"RED", 1>>, <<"RED", 1>> >>
  /\ ~(read_pressed /\ write_pressed)
  /\ Identifier(eeprom, slot) \in Ids
  /\ Label(eeprom, slot) # Zeros(8)

(***************************************************************************)
(* C10. A Capture changes nothing but the 8 identifier bytes of the        *)
(* selected slot.                                                          *)
(***************************************************************************)
C10_CaptureFrame ==
  [][(pc = "branch" /\ read_pressed) =>
       \A s \in 0..16, k \in 1..16 :
         (s = SelectorValue /\ k <= 8) \/ eeprom'[s][k] = eeprom[s][k]]_vars

C10_Witness ==
  /\ pc = "wait_read"
  /\ Label(eeprom, SelectorValue) = <<75, 69, 89, 0, 0, 0, 0, 0>>
  /\ Identifier(eeprom, SelectorValue) \in Ids
  /\ \E s \in 0..15 : s # SelectorValue /\ Identifier(eeprom, s) # Zeros(8)

(***************************************************************************)
(* C11. Every slot 0..15 is reported empty exactly when its 8 identifier   *)
(* bytes are all 0x00; and right after a clear (console C, or the          *)
(* completed two-trigger hold) the 16 bytes of the slot cleared are zero   *)
(* and the slot is reported empty and unnamed.                             *)
(***************************************************************************)
C11_EmptinessInvariant ==
  [][/\ \A i \in 0..15 :
          /\ ReportedEmpty(eeprom, i) <=> (\A k \in 1..8 : eeprom[i][k] = 0)
          /\ slot_is_full(eeprom, i) <=> ~ReportedEmpty(eeprom, i)
     /\ ConsoleCleared' =>
          /\ eeprom'[slot'] = Zeros(16)
          /\ ReportedEmpty(eeprom', slot')
          /\ ReportedUnnamed(eeprom', slot')
     /\ (ChordCompletes /\ slot \in 0..15) =>
          /\ eeprom'[slot] = Zeros(16)
          /\ ReportedEmpty(eeprom', slot)
          /\ ReportedUnnamed(eeprom', slot)]_vars

\* a named, populated slot has just been cleared from the console
C11_Witness ==
  /\ ConsoleCleared
  /\ code \in Ids
  /\ eeprom[slot] = Zeros(16)
  /\ \E i \in 0..15 : Label(eeprom, i) # Zeros(8) /\ ~ReportedEmpty(eeprom, i)

(***************************************************************************)
(* C12. A dump reports 16 entries, for slot 0..15 in ascending order; the  *)
(* entry of a populated slot shows its 6 payload bytes and its label (the  *)
(* unnamed marker if it has none), the entry of an empty slot shows the    *)
(* empty marker; and the dump changes no byte of storage.                  *)
(***************************************************************************)
C12_DumpAll ==
  [][Dumped' =>
       /\ eeprom' = eeprom
       /\ Len(out') = 16
       /\ \A i \in 0..15 :
            LET entry == out'[i + 1]
                id == Identifier(eeprom, i)
                label == Label(eeprom, i)
            IN /\ entry.slot = i
               /\ id = Zeros(8) => entry.mem = EmptySlotText
               /\ id # Zeros(8) =>
                    /\ entry.mem = PayloadText(SubSeq(id, 2, 7), FALSE)
                    /\ entry.name = IF label[1] = 0 THEN UnnamedText ELSE LabelText(label)]_vars

\* a dump with a named slot, a populated unnamed slot and empty slots
C12_Witness ==
  /\ Dumped
  /\ out[6].name = <<75, 69, 89>>
  /\ out[6].mem = PayloadText(PayloadChoices[1], FALSE)
  /\ out[1].name = UnnamedText
  /\ out[1].mem = PayloadText(SubSeq(IdChoices[1], 2, 7), FALSE)
  /\ out[2].mem = EmptySlotText

(***************************************************************************)
(* C13. A Capture whose detection reports Absent changes no byte of        *)
(* storage and returns to the top of loop(); a Capture that then finds a   *)
(* device stores its identifier, however many Absent attempts came before. *)
(***************************************************************************)
C13_AbsentCaptureRetry ==
  [][CaptureBegins =>
       /\ bus'[Len(bus')].op = "search"
       /\ Detected' = Absent =>
            /\ eeprom' = eeprom
            /\ pc' = "ret"
            /\ absent_run' = Min(absent_run + 1, MaxAbsentRun)
       /\ Detected' # Absent =>
            /\ Identifier(eeprom', SelectorValue) = Detected'
            /\ pc' = "wait_read"]_vars

\* a fob captured into a slot holding another identifier, after Absent
\* attempts in a row
C13_Witness ==
  /\ pc = "wait_read"
  /\ absent_run = MaxAbsentRun
  /\ bus = <<OwSearch(IdChoices[1])>>
  /\ Identifier(eeprom, SelectorValue) = IdChoices[1]
  /\ Label(eeprom, SelectorValue) # Zeros(8)

(***************************************************************************)
(* C14. The slot index of every storage access is in 0..15: the erase of   *)
(* the two-trigger hold, like every other write, lands in bytes 0..15 of   *)
(* one of the 16 regions, below offset 512.                                *)
(***************************************************************************)
C14_SlotIndexInRange ==
  [][/\ ChordCompletes => (slot \in 0..15 /\ SlotAddr(slot, 15) < 512)
     /\ \A s \in 0..16, k \in 1..16 :
          eeprom'[s][k] # eeprom[s][k] => SlotAddr(s, k - 1) < 512]_vars

(***************************************************************************)
(* C15. Between the erase of a completed two-trigger hold and the next     *)
(* sampling of the triggers no detection is attempted on the bus and no    *)
(* byte of storage is written.                                             *)
(***************************************************************************)
C15_ChordEraseOnly ==
  [][ChordCompleted => (bus' = <<>> /\ eeprom' = eeprom)]_vars

(***************************************************************************)
(* C16. After a successful Capture nothing begins until READ has been seen *)
(* released, and after every Program attempt nothing begins until WRITE    *)
(* has been seen released.                                                 *)
(***************************************************************************)
C16_WaitForRelease ==
  [][/\ (CaptureBegins /\ Detected' # Absent) => pc' = "wait_read"
     /\ ProgramBegins => pc' = "wait_write"
     /\ WaitsForRelease =>
          (pc' = "ret" /\ UNCHANGED <<eeprom, bus, led, slot, code, addr>>)]_vars

\* C16 as amended: after a successful Capture nothing begins until READ has
\* been seen released; after a Program attempt that signalled "nothing
\* stored" or ran the programming sequence nothing begins until WRITE has
\* been seen released; a Program attempt whose detection reports Absent
\* returns at once, without waiting for the release.
C16_WaitForReleaseUnlessAbsent ==
  [][/\ (CaptureBegins /\ Detected' # Absent) => pc' = "wait_read"
     /\ (ProgramBegins /\ bus' = <<>>) => pc' = "wait_write"
     /\ (ProgramBegins /\ bus' # <<>> /\ bus'[1].slots # Absent) => pc' = "wait_write"
     /\ (ProgramBegins /\ bus' # <<>> /\ bus'[1].slots = Absent) => pc' = "ret"
     /\ WaitsForRelease =>
          (pc' = "ret" /\ UNCHANGED <<eeprom, bus, led, slot, code, addr>>)]_vars

\* a capture made and the release of READ seen, with the slot named before
C16_Witness ==
  /\ pc = "ret"
  /\ led = << <<"GREEN", 5>> >>
  /\ bus = <<OwSearch(IdChoices[1])>>
  /\ read_pressed
  /\ Label(eeprom, slot) # Zeros(8)

(***************************************************************************)
(* C17. Once the first command of the programming sequence is on the bus,  *)
(* all 15 operations through the final reset are, before any trigger,      *)
(* selector or console input is sampled again; a Program stops only at the *)
(* slot-emptiness check or the presence check, and then nothing has been   *)
(* sent and storage is as it was.                                          *)
(***************************************************************************)
C17_NoMidOperationCancel ==
  [][/\ SentAfterDetection(bus) # <<>> =>
          /\ pc \in {"wait_write", "ret"}
          /\ Len(SentAfterDetection(bus)) = 15
          /\ bus[Len(bus)] = OwReset
     /\ ProgramBegins =>
          LET sent == SentAfterDetection(bus') IN
          /\ eeprom' = eeprom
          /\ UNCHANGED <<pins, read_pressed, write_pressed, rx, serial_choice>>
          /\ \/ /\ sent = <<>>
                /\ \/ bus' = <<>> /\ ~slot_is_full(eeprom, SelectorValue)
                   \/ bus' = <<OwSearch(Absent)>> /\ slot_is_full(eeprom, SelectorValue)
             \/ /\ Len(sent) = 15
                /\ sent[1] = OwSkip
                /\ \A x \in 1..8 : sent[6 + x].op = "writeByte"
                /\ sent[15] = OwReset
                /\ pc' = "wait_write"]_vars

\* a typed identifier programmed to the end
C17_Witness ==
  /\ pc = "wait_write"
  /\ Len(bus) = 16
  /\ bus[16] = OwReset
  /\ bus[15] = OwWriteByte(186)

(***************************************************************************)
(* C18. Each identifier byte goes out as 8 bit slots, least-significant    *)
(* bit first, a 0 bit as the long (60 microsecond) low pulse and a 1 bit   *)
(* as the brief low pulse.                                                 *)
(***************************************************************************)
C18_WriteByteAsSpecified ==
  \A k \in ByteTransmissions :
    /\ Len(bus[k].slots) = 8
    /\ \A b \in 0..7 :
         bus[k].slots[b + 1] = IF Bit(bus[k].val, b) = 0 THEN "low60" ELSE "brief"

\* C18 as amended: each identifier byte goes out as 8 bit slots,
\* least-significant bit first, a 1 bit as the long (60 microsecond) low
\* pulse and a 0 bit as the brief low pulse followed by releasing the line.
C18_WriteByteAsCoded ==
  \A k \in ByteTransmissions :
    /\ Len(bus[k].slots) = 8
    /\ \A b \in 0..7 :
         bus[k].slots[b + 1] = IF Bit(bus[k].val, b) = 1 THEN "low60" ELSE "brief"
    /\ bus[k].val = 12 =>
         bus[k].slots = <<"brief", "brief", "low60", "low60",
                          "brief", "brief", "brief", "brief">>

\* the family code 0x0C and the checksum 0x4D of the first fob on the bus
C18_Witness ==
  /\ Len(bus) = 16
  /\ bus[8].op = "writeByte"
  /\ bus[8].val = 12
  /\ bus[15].val = 77
  /\ bus[15].slots = <<"low60", "brief", "low60", "low60",
                        "brief", "brief", "low60", "brief">>

(***************************************************************************)
(* C19. A Program leaves every byte of storage as it was, whether the slot *)
(* is empty, no device answers or the sequence runs to its end; and the 8  *)
(* bytes it sends are those stored for the selected slot, not those the    *)
(* detection has just returned.                                            *)
(***************************************************************************)
C19_ProgramFrame ==
  [][ProgramBegins =>
       /\ eeprom' = eeprom
       /\ bus' = <<>> \/ bus' = <<OwSearch(Absent)>> \/ Len(bus') = 16
       /\ Len(bus') = 16 =>
            \A x \in 1..8 : bus'[7 + x].val = eeprom[SelectorValue][x]]_vars

\* a typed identifier programmed onto a fob that answered with another one
C19_Witness ==
  /\ pc = "wait_write"
  /\ Len(bus) = 16
  /\ bus[1].slots = IdChoices[1]
  /\ Identifier(eeprom, SelectorValue) = <<12>> \o PayloadChoices[1] \o <<186>>
  /\ \E i \in 0..15 : Identifier(eeprom, i) = IdChoices[1]

====
